---------------------------- MODULE Spec2Model ----------------------------
(***************************************************************************)
(* Block Blast (src/game.js): the game-state engine behind the page.       *)
(* An 8x8 grid, three candidate blocks, placement, line clearing, scoring, *)
(* refill and the game-over test, as the handlers of game.js perform them. *)
(*                                                                         *)
(* Encoding.  A grid cell holds 0 (empty) or k in 1..5, standing for the   *)
(* class name COLORS[k].  A JavaScript call ends in one of three ways,     *)
(* written "true", "false" (the returned boolean) or "TypeError" (thrown). *)
(* Math.random() returns n / RandDen for an integer n in 0..RandDen-1;     *)
(* rnd is the sequence of results it has yet to return.                    *)
(* dropHandlers counts the 'drop' listeners registered on the board        *)
(* element, and picked is the block the player selected by a click.        *)
(***************************************************************************)
EXTENDS Integers, Sequences, FiniteSets

VARIABLES state, rnd, highScore, last, dropHandlers, picked

vars == <<state, rnd, highScore, last, dropHandlers, picked>>

---------------------------------------------------------------------------
(* Program constants                                                       *)

ROWS == 8
COLS == 8

SHAPES ==
  << << <<1>> >>,
     << <<1, 1>> >>,
     << <<1>>, <<1>> >>,
     << <<1, 1>>, <<1, 1>> >>,
     << <<1, 1, 1>> >>,
     << <<1>>, <<1>>, <<1>> >>,
     << <<1, 1, 1, 1>> >>,
     << <<1>>, <<1>>, <<1>>, <<1>> >>,
     << <<1, 1, 1>>, <<1, 0, 0>> >>,
     << <<1, 1, 1>>, <<0, 0, 1>> >>,
     << <<1, 0, 0>>, <<1, 1, 1>> >>,
     << <<0, 0, 1>>, <<1, 1, 1>> >>,
     << <<1, 1>>, <<1, 0>> >>,
     << <<1, 1>>, <<0, 1>> >>,
     << <<0, 1>>, <<1, 1>> >>,
     << <<1, 0>>, <<1, 1>> >>,
     << <<1, 1, 1>>, <<0, 1, 0>> >>,
     << <<0, 1, 0>>, <<1, 1, 1>> >>,
     << <<1, 0>>, <<1, 1>>, <<1, 0>> >>,
     << <<0, 1>>, <<1, 1>>, <<0, 1>> >>,
     << <<1, 1, 1>>, <<1, 1, 1>> >>,
     << <<1, 1>>, <<1, 1>>, <<1, 1>> >>,
     << <<1, 1, 1>>, <<1, 1, 1>>, <<1, 1, 1>> >> >>

\* SHAPES[idx] of the source, whose indices start at 0.
ShapeAt(idx) == SHAPES[idx + 1]

LARGE_SHAPE_INDICES == <<6, 7, 8, 9, 10, 11, 16, 17, 18, 19, 20, 21, 22>>

COLORS == <<"c1", "c2", "c3", "c4", "c5">>

---------------------------------------------------------------------------
(* Bounds of the exploration                                               *)

\* Arguments tryPlaceBlock is called with.
MaxBlockIndex == 3
BlockInputs == -1..MaxBlockIndex
\* (row, col) pairs: anchors inside the grid, and anchors that put the shape
\* outside it to the left, above, below and to the right.
AnchorInputs ==
  { <<0, 0>>, <<0, 4>>, <<4, 0>>, <<4, 4>>, <<5, 4>>,
    <<0, -3>>, <<-1, 0>>, <<-1, 8>>, <<8, 0>>, <<0, 8>> }

\* Resolution of Math.random(): a multiple of 100, 23, 13 and 5, so that the
\* comparison with largeChance and the floors over both pools are exact.
RandDen == 100 * 23 * 13

\* One randomShape call's worth of Math.random() results: u decides the pool
\* (read only when largeChance > 0), v the index in the pool, w the colour.
Draw(u, idx, k) ==
  [u |-> u, v |-> idx * (RandDen \div 23), w |-> (k - 1) * (RandDen \div 5)]

\* The first n results of a random source that repeats pattern.
Cycle(pattern, n) == [i \in 1..n |-> pattern[((i - 1) % Len(pattern)) + 1]]

\* The random sources explored: what each will return, in order.  A call
\* that needs more results than its source has left is not explored.
Streams ==
  { Cycle(<< Draw(RandDen - 1, 22, 1) >>, 10),
    Cycle(<< Draw(RandDen - 1, 6, 1), Draw(RandDen - 1, 6, 2) >>, 7),
    Cycle(<< Draw(RandDen - 1, 6, 3), Draw(RandDen - 1, 7, 4),
             Draw(RandDen - 1, 21, 5), Draw(RandDen - 1, 6, 1) >>, 7),
    Cycle(<< Draw(RandDen - 1, 12, 2), Draw(RandDen - 1, 14, 3),
             Draw(RandDen - 1, 11, 1) >>, 5) }

---------------------------------------------------------------------------
(* Grid                                                                    *)

\* F applied to the value of e, with e evaluated once.
With(e, F(_)) == CHOOSE y \in {F(x) : x \in {e}} : TRUE

\* Column indices a row array can hold a value at: 0..COLS-1, and the
\* negative indices (properties of the array, outside its elements) that
\* placeBlock can write when it is given a negative col.
HiddenCols == UNION {a[2]..-1 : a \in AnchorInputs}
ColIndices == HiddenCols \cup (0..COLS - 1)

\* state.grid[r][c]; an index never written reads undefined, which is falsy.
Cell(grid, r, c) == IF c \in DOMAIN grid[r] THEN grid[r][c] ELSE 0

\* initGrid: ROWS fresh arrays of COLS zeros.
initGrid == [r \in 0..ROWS - 1 |-> [c \in ColIndices |-> 0]]

\* shape.length and shape[0].length.
Height(shape) == Len(shape)
Width(shape) == Len(shape[1])

---------------------------------------------------------------------------
(* Random generation                                                       *)

\* The next randomShape call's random results, and the stream after it.
NextDraw(rn) == Head(rn)
Advance(rn) == Tail(rn)

\* [...Array(SHAPES.length).keys()]
AllShapeIndices == [i \in 1..Len(SHAPES) |-> i - 1]

\* useLargePool with 10 percent per level.
useLargePoolTenPercent(score, d) ==
  LET level == score \div 250
      largePercent == level * 10
  IN  largePercent > 0 /\ d.u * 100 < largePercent * RandDen

\* useLargePool = largeChance > 0 && Math.random() < largeChance, where
\* largeChance = level * 0.08 is compared in hundredths.
useLargePool(score, d) ==
  LET level == score \div 250
      largePercent == level * 8
  IN  largePercent > 0 /\ d.u * 100 < largePercent * RandDen

\* randomShape with state.score = score and the random results d.
randomShape(score, d) ==
  LET pool == IF useLargePool(score, d) THEN LARGE_SHAPE_INDICES
                                        ELSE AllShapeIndices
      idx == pool[(d.v * Len(pool)) \div RandDen + 1]
      color == (d.w * Len(COLORS)) \div RandDen + 1
  IN  [shape |-> ShapeAt(idx), color |-> color]

\* getThreeBlocks: three randomShape calls at the same state.score.
getThreeBlocks(score, rn) ==
  LET r1 == Advance(rn)
      r2 == Advance(r1)
  IN  [blocks |-> << randomShape(score, NextDraw(rn)),
                     randomShape(score, NextDraw(r1)),
                     randomShape(score, NextDraw(r2)) >>,
       rnd |-> Advance(r2)]

---------------------------------------------------------------------------
(* Placement                                                               *)

\* The nested loops of canPlace from their k-th iteration (row-major).
\* state.grid[row + r] is undefined for row + r < 0, and reading a column
\* of undefined throws.
RECURSIVE canPlaceFrom(_, _, _, _, _)
canPlaceFrom(grid, shape, row, col, k) ==
  LET W == Width(shape)
      r == k \div W
      c == k % W
  IN  IF k >= Height(shape) * W THEN "true"
      ELSE IF shape[r + 1][c + 1] = 0
             THEN canPlaceFrom(grid, shape, row, col, k + 1)
      ELSE IF row + r \notin DOMAIN grid THEN "TypeError"
      ELSE IF Cell(grid, row + r, col + c) # 0 THEN "false"
      ELSE canPlaceFrom(grid, shape, row, col, k + 1)

\* canPlace with >= in the bounds test.
canPlaceOffByOne(grid, shape, row, col) ==
  IF row + Height(shape) >= ROWS \/ col + Width(shape) >= COLS
    THEN "false"
    ELSE canPlaceFrom(grid, shape, row, col, 0)

canPlace(grid, shape, row, col) ==
  IF row + Height(shape) > ROWS \/ col + Width(shape) > COLS
    THEN "false"
    ELSE canPlaceFrom(grid, shape, row, col, 0)

\* placeBlock without the test of shape[r][c]: the whole box is written.
CoversBox(shape, row, col, r, c) ==
  /\ r - row \in 0..Height(shape) - 1
  /\ c - col \in 0..Width(shape) - 1

\* placeBlock writing to state.grid[row + r + 1]: one row too low.
CoversRowBelow(shape, row, col, r, c) ==
  /\ r - row - 1 \in 0..Height(shape) - 1
  /\ c - col \in 0..Width(shape) - 1
  /\ shape[r - row][c - col + 1] = 1

\* Whether placeBlock's loops assign grid[r][c].
Covers(shape, row, col, r, c) ==
  /\ r - row \in 0..Height(shape) - 1
  /\ c - col \in 0..Width(shape) - 1
  /\ shape[r - row + 1][c - col + 1] = 1

placeBlock(grid, shape, color, row, col) ==
  [r \in DOMAIN grid |->
     [c \in DOMAIN grid[r] |->
        IF Covers(shape, row, col, r, c) THEN color ELSE grid[r][c]]]

---------------------------------------------------------------------------
(* Line clearing and scoring                                               *)

RowIndices == [i \in 1..ROWS |-> i - 1]
ColumnIndices == [i \in 1..COLS |-> i - 1]

\* state.grid[r].every(cell => cell !== 0): the array's elements only.
rowFull(grid, r) == \A c \in 0..COLS - 1 : grid[r][c] # 0
\* The inner loop over r of the column scan.
colFull(grid, c) == \A r \in 0..ROWS - 1 : grid[r][c] # 0

SeqToSet(s) == {s[i] : i \in 1..Len(s)}

\* Math.pow(2, n)
RECURSIVE Pow2(_)
Pow2(n) == IF n = 0 THEN 1 ELSE 2 * Pow2(n - 1)

\* The points with the streak incremented before the bonus is computed.
linePointsAfterIncrement(count, streak) ==
  count * 10 + Pow2(count) + (streak + 1) * 20

\* points: base per line, combo, and the bonus of the streak so far.
linePoints(count, streak) ==
  count * 10 + Pow2(count) + (IF streak > 0 THEN streak * 20 ELSE 0)

\* clearLines that empties the full rows before it scans the columns.
clearLinesRowsFirst(s) ==
  With(SelectSeq(RowIndices, LAMBDA r : rowFull(s.grid, r)),
       LAMBDA rowsToClear :
  With([r \in DOMAIN s.grid |->
          [c \in DOMAIN s.grid[r] |->
             IF c \in 0..COLS - 1 /\ r \in SeqToSet(rowsToClear)
               THEN 0 ELSE s.grid[r][c]]],
       LAMBDA rowsCleared :
  With(SelectSeq(ColumnIndices, LAMBDA c : colFull(rowsCleared, c)),
       LAMBDA colsToClear :
    LET count == Len(rowsToClear) + Len(colsToClear)
        cleared == [r \in DOMAIN s.grid |->
                      [c \in DOMAIN s.grid[r] |->
                         IF c \in SeqToSet(colsToClear)
                           THEN 0 ELSE rowsCleared[r][c]]]
    IN  IF count = 0
          THEN [state |-> s,
                ret |-> [count |-> 0, rows |-> <<>>, cols |-> <<>>]]
          ELSE [state |-> [s EXCEPT !.grid = cleared,
                                    !.score = s.score
                                                + linePoints(count, s.streak),
                                    !.combo = count,
                                    !.lastMoveCleared = TRUE,
                                    !.streak = s.streak + 1],
                ret |-> [count |-> count, rows |-> rowsToClear,
                         cols |-> colsToClear]])))

\* clearLines without the loop that empties the rows of rowsToClear.
clearLinesOnlyColumns(s) ==
  With(SelectSeq(RowIndices, LAMBDA r : rowFull(s.grid, r)),
       LAMBDA rowsToClear :
  With(SelectSeq(ColumnIndices, LAMBDA c : colFull(s.grid, c)),
       LAMBDA colsToClear :
    LET count == Len(rowsToClear) + Len(colsToClear)
        cleared == [r \in DOMAIN s.grid |->
                      [c \in DOMAIN s.grid[r] |->
                         IF c \in SeqToSet(colsToClear)
                           THEN 0
                           ELSE s.grid[r][c]]]
    IN  IF count = 0
          THEN [state |-> s,
                ret |-> [count |-> 0, rows |-> <<>>, cols |-> <<>>]]
          ELSE [state |-> [s EXCEPT !.grid = cleared,
                                    !.score = s.score
                                                + linePoints(count, s.streak),
                                    !.combo = count,
                                    !.lastMoveCleared = TRUE,
                                    !.streak = s.streak + 1],
                ret |-> [count |-> count, rows |-> rowsToClear,
                         cols |-> colsToClear]]))

\* clearLines on the session s: the session afterwards and the returned
\* {count, rows, cols}.
clearLines(s) ==
  With(SelectSeq(RowIndices, LAMBDA r : rowFull(s.grid, r)),
       LAMBDA rowsToClear :
  With(SelectSeq(ColumnIndices, LAMBDA c : colFull(s.grid, c)),
       LAMBDA colsToClear :
    LET count == Len(rowsToClear) + Len(colsToClear)
        cleared == [r \in DOMAIN s.grid |->
                      [c \in DOMAIN s.grid[r] |->
                         IF /\ c \in 0..COLS - 1
                            /\ \/ r \in SeqToSet(rowsToClear)
                               \/ c \in SeqToSet(colsToClear)
                           THEN 0
                           ELSE s.grid[r][c]]]
        points == linePoints(count, s.streak)
    IN  IF count = 0
          THEN [state |-> s,
                ret |-> [count |-> 0, rows |-> <<>>, cols |-> <<>>]]
          ELSE [state |-> [s EXCEPT !.grid = cleared,
                                    !.score = s.score + points,
                                    !.combo = count,
                                    !.lastMoveCleared = TRUE,
                                    !.streak = s.streak + 1],
                ret |-> [count |-> count, rows |-> rowsToClear,
                         cols |-> colsToClear]]))

\* noClearThisMove that leaves the streak.
noClearKeepsStreak(s) ==
  [s EXCEPT !.lastMoveCleared = FALSE, !.combo = 0]

noClearThisMove(s) ==
  [s EXCEPT !.lastMoveCleared = FALSE, !.streak = 0, !.combo = 0]

\* canPlaceAny that only asks whether an anchor exists, not whether it is
\* free.
canPlaceAnyAnchor(grid, blocks) ==
  \E i \in 1..Len(blocks) :
    \E r \in 0..ROWS - Height(blocks[i].shape) :
      \E c \in 0..COLS - Width(blocks[i].shape) : TRUE

\* canPlaceAny: the scan returns true at the first anchor that fits.
canPlaceAny(grid, blocks) ==
  \E i \in 1..Len(blocks) :
    \E r \in 0..ROWS - Height(blocks[i].shape) :
      \E c \in 0..COLS - Width(blocks[i].shape) :
        canPlace(grid, blocks[i].shape, r, c) = "true"

---------------------------------------------------------------------------
(* The move and the restart                                                *)

\* The stored best score: getHighScore reads back the decimal string that
\* setHighScore wrote, and an absent key reads 0.
showGameOver(score, best) == IF score > best THEN score ELSE best

\* splice(0, 1): the first block is removed whatever blockIndex is.
spliceFirst(blocks, blockIndex) == Tail(blocks)

\* state.currentBlocks.splice(blockIndex, 1)
splice(blocks, blockIndex) ==
  [i \in 1..Len(blocks) - 1 |->
     IF i <= blockIndex THEN blocks[i] ELSE blocks[i + 1]]

\* while (state.currentBlocks.length < 3) push(randomShape())
RECURSIVE refill(_, _, _)
refill(blocks, score, rn) ==
  IF Len(blocks) < 3
    THEN refill(Append(blocks, randomShape(score, NextDraw(rn))),
                score, Advance(rn))
    ELSE [blocks |-> blocks, rnd |-> rn]

NoLines == [count |-> 0, rows |-> <<>>, cols |-> <<>>]
NoBlock == [shape |-> << <<0>> >>, color |-> 0]

\* A call that changes nothing and ends with ret.
Unchanged(w, ret) ==
  [state |-> w.state, rnd |-> w.rnd, highScore |-> w.highScore,
   ret |-> ret, block |-> NoBlock, stamped |-> w.state.grid,
   linesCleared |-> NoLines]

\* The outcome without the test of state.gameOver.
tryPlaceBlockRetNoGameOver(w, blockIndex, row, col) ==
  LET s == w.state
  IN  IF blockIndex < 0 \/ blockIndex >= Len(s.currentBlocks)
        THEN "false"
        ELSE canPlace(s.grid, s.currentBlocks[blockIndex + 1].shape, row, col)

\* How tryPlaceBlock(blockIndex, row, col) ends: the guard of its first
\* line, then canPlace.
tryPlaceBlockRet(w, blockIndex, row, col) ==
  LET s == w.state
  IN  IF s.gameOver \/ blockIndex < 0 \/ blockIndex >= Len(s.currentBlocks)
        THEN "false"
        ELSE canPlace(s.grid, s.currentBlocks[blockIndex + 1].shape, row, col)

\* tryPlaceBlock(blockIndex, row, col) on the world w = [state, rnd,
\* highScore]: the world afterwards, how the call ended, and the values the
\* handler computes on the way (the block taken, the grid after placeBlock
\* and the result of clearLines).
tryPlaceBlock(w, blockIndex, row, col) ==
  LET s == w.state
      ret == tryPlaceBlockRet(w, blockIndex, row, col)
      block == s.currentBlocks[blockIndex + 1]
  IN  IF ret # "true" THEN Unchanged(w, ret)
      ELSE
        With(placeBlock(s.grid, block.shape, block.color, row, col),
             LAMBDA stamped :
        With(clearLines([s EXCEPT !.grid = stamped, !.score = s.score + 5]),
             LAMBDA cl :
        With(IF cl.ret.count = 0 THEN noClearThisMove(cl.state) ELSE cl.state,
             LAMBDA s2 :
        With(refill(splice(s2.currentBlocks, blockIndex), s2.score, w.rnd),
             LAMBDA rf :
        With(~canPlaceAny(s2.grid, rf.blocks),
             LAMBDA over :
          [state |-> [s2 EXCEPT !.currentBlocks = rf.blocks,
                                !.gameOver = IF over THEN TRUE ELSE @],
           rnd |-> rf.rnd,
           highScore |-> IF over THEN showGameOver(s2.score, w.highScore)
                                 ELSE w.highScore,
           ret |-> "true",
           block |-> block,
           stamped |-> stamped,
           linesCleared |-> cl.ret])))))

\* doRestart without the call of initGrid.
doRestartKeepsGrid(w) ==
  LET three == getThreeBlocks(w.state.score, w.rnd)
  IN  [state |-> [grid |-> w.state.grid,
                  currentBlocks |-> three.blocks,
                  score |-> 0,
                  combo |-> 0,
                  streak |-> 0,
                  lastMoveCleared |-> FALSE,
                  gameOver |-> FALSE,
                  selectedBlockIndex |-> -1,
                  draggingBlockIndex |-> -1],
       rnd |-> three.rnd,
       highScore |-> w.highScore]

\* doRestart: the three blocks are generated before state.score is reset.
doRestart(w) ==
  LET three == getThreeBlocks(w.state.score, w.rnd)
  IN  [state |-> [grid |-> initGrid,
                  currentBlocks |-> three.blocks,
                  score |-> 0,
                  combo |-> 0,
                  streak |-> 0,
                  lastMoveCleared |-> FALSE,
                  gameOver |-> FALSE,
                  selectedBlockIndex |-> -1,
                  draggingBlockIndex |-> -1],
       rnd |-> three.rnd,
       highScore |-> w.highScore]

---------------------------------------------------------------------------
(* The state machine                                                       *)

World == [state |-> state, rnd |-> rnd, highScore |-> highScore]

\* The record of the latest call: its name, how it ended, and for an
\* accepted tryPlaceBlock its arguments, the block taken, the grid after
\* placeBlock and the result of clearLines.  placed is the number of
\* placements the call made, wasOver whether a restart was invoked on a
\* game that had ended, and draw the random results a randomShape call
\* was given.
NoCall(op) ==
  [op |-> op, ret |-> "none", blockIndex |-> -1, row |-> 0, col |-> 0,
   block |-> NoBlock, stamped |-> initGrid, linesCleared |-> NoLines,
   placed |-> 0, wasOver |-> FALSE, draw |-> Draw(0, 0, 1)]

\* render: renderGrid and renderBlocks replace the cells and the block
\* options, with one listener each; attachBoardListeners adds one more
\* 'drop' listener to the board element, which is never replaced.
render(n) == n + 1

\* The module's top level: state as declared, then initGrid, getThreeBlocks,
\* updateScores and render.  No best score is stored yet.
InitFrom(stream) ==
  LET three == getThreeBlocks(0, stream)
  IN  /\ state = [grid |-> initGrid,
                  currentBlocks |-> three.blocks,
                  score |-> 0,
                  combo |-> 0,
                  streak |-> 0,
                  lastMoveCleared |-> FALSE,
                  gameOver |-> FALSE,
                  selectedBlockIndex |-> -1,
                  draggingBlockIndex |-> -1]
      /\ rnd = three.rnd
      /\ highScore = 0
      /\ last = NoCall("init")
      /\ dropHandlers = render(0)
      /\ picked = NoBlock

Init == \E stream \in Streams : InitFrom(stream)

TryPlaceBlock(blockIndex, row, col) ==
  /\ tryPlaceBlockRet(World, blockIndex, row, col) = "true" => Len(rnd) >= 1
  /\ \E res \in {tryPlaceBlock(World, blockIndex, row, col)} :
      /\ state' = res.state
      /\ rnd' = res.rnd
      /\ highScore' = res.highScore
      /\ last' = IF res.ret = "true"
                   THEN [NoCall("tryPlaceBlock") EXCEPT
                           !.ret = "true",
                           !.blockIndex = blockIndex,
                           !.row = row,
                           !.col = col,
                           !.block = res.block,
                           !.stamped = res.stamped,
                           !.linesCleared = res.linesCleared,
                           !.placed = 1]
                   ELSE [NoCall("tryPlaceBlock") EXCEPT !.ret = res.ret]
      /\ dropHandlers' = IF res.ret = "true" THEN render(dropHandlers)
                                             ELSE dropHandlers
      /\ UNCHANGED picked

DoRestart ==
  /\ Len(rnd) >= 3
  /\ \E res \in {doRestart(World)} :
      /\ state' = res.state
      /\ rnd' = res.rnd
      /\ highScore' = res.highScore
      /\ last' = [NoCall("doRestart") EXCEPT !.wasOver = state.gameOver]
      /\ dropHandlers' = render(dropHandlers)
      /\ picked' = NoBlock

Next ==
  \/ \E blockIndex \in BlockInputs, a \in AnchorInputs :
       TryPlaceBlock(blockIndex, a[1], a[2])
  \/ DoRestart

Spec == Init /\ [][Next]_vars

---------------------------------------------------------------------------
(* canPlace called on its own                                              *)

\* The moves that build the grids canPlace is called on:
\* (blockIndex, row, col).
GridMoves == { <<0, 0, 0>>, <<0, 4, 4>>, <<0, 0, -3>> }

\* An accepted move of GridMoves.
GridMove(blockIndex, row, col) ==
  /\ last.op # "canPlace"
  /\ tryPlaceBlockRet(World, blockIndex, row, col) = "true"
  /\ TryPlaceBlock(blockIndex, row, col)

\* One call canPlace(SHAPES[idx], null, row, col), as canPlaceAny and the
\* dragover handler make it: the session is left as it is, and the record
\* of the call keeps the shape, the anchor and the result.
CanPlaceCall(idx, row, col) ==
  /\ last.op # "canPlace"
  /\ last' = [NoCall("canPlace") EXCEPT
                !.ret = canPlace(state.grid, ShapeAt(idx), row, col),
                !.block = [shape |-> ShapeAt(idx), color |-> 0],
                !.row = row,
                !.col = col]
  /\ UNCHANGED <<state, rnd, highScore, dropHandlers, picked>>

NextCanPlace ==
  \/ \E m \in GridMoves : GridMove(m[1], m[2], m[3])
  \/ \E idx \in 0..Len(SHAPES) - 1, row \in 0..ROWS, col \in 0..COLS :
       CanPlaceCall(idx, row, col)

SpecCanPlace == Init /\ [][NextCanPlace]_vars

---------------------------------------------------------------------------
(* The page: clicks and drag-and-drop                                      *)

\* The cells (row, col) the pointer is over, as getCellFromPoint returns
\* them: always inside the grid.
UICells == { <<0, 0>>, <<0, 4>>, <<4, 0>>, <<4, 4>> }

\* 'click' on the block option rendered for currentBlocks[index].
ClickBlock(index) ==
  /\ state' = [state EXCEPT !.selectedBlockIndex = index]
  /\ picked' = state.currentBlocks[index + 1]
  /\ last' = NoCall("clickBlock")
  /\ UNCHANGED <<rnd, highScore, dropHandlers>>

\* 'click' on the board cell (row, col) while a block is selected: the
\* selection is reset if tryPlaceBlock returns true.
ClickCell(row, col) ==
  /\ state.selectedBlockIndex >= 0
  /\ tryPlaceBlockRet(World, state.selectedBlockIndex, row, col) = "true"
       => Len(rnd) >= 1
  /\ \E res \in {tryPlaceBlock(World, state.selectedBlockIndex, row, col)} :
      /\ state' = IF res.ret = "true"
                    THEN [res.state EXCEPT !.selectedBlockIndex = -1]
                    ELSE res.state
      /\ rnd' = res.rnd
      /\ highScore' = res.highScore
      /\ last' = IF res.ret = "true"
                   THEN [NoCall("clickCell") EXCEPT
                           !.ret = "true",
                           !.blockIndex = state.selectedBlockIndex,
                           !.row = row,
                           !.col = col,
                           !.block = res.block,
                           !.stamped = res.stamped,
                           !.linesCleared = res.linesCleared,
                           !.placed = 1]
                   ELSE [NoCall("clickCell") EXCEPT !.ret = res.ret]
      /\ dropHandlers' = IF res.ret = "true" THEN render(dropHandlers)
                                             ELSE dropHandlers
      /\ picked' = IF res.ret = "true" THEN NoBlock ELSE picked

\* The 'drop' listeners of the board run one after the other on one event:
\* n are still to run, placed of those that ran had their tryPlaceBlock
\* accepted.  Each reads the same index from the event's dataTransfer and
\* the same cell from its coordinates.  A listener that render adds during
\* the dispatch does not run for this event.  w.rnd = <<>> with a
\* placement due means the random source is used up (ok is FALSE).
RECURSIVE dropListeners(_, _, _, _, _, _)
dropListeners(w, n, placed, index, row, col) ==
  IF n = 0 THEN [world |-> w, placed |-> placed, ok |-> TRUE]
  ELSE IF tryPlaceBlockRet(w, index, row, col) # "true"
    THEN dropListeners(w, n - 1, placed, index, row, col)
  ELSE IF w.rnd = <<>> THEN [world |-> w, placed |-> placed, ok |-> FALSE]
  ELSE With(tryPlaceBlock(w, index, row, col),
            LAMBDA res :
              dropListeners([state |-> res.state, rnd |-> res.rnd,
                             highScore |-> res.highScore],
                            n - 1, placed + 1, index, row, col))

\* One drag of the block option at index onto the cell (row, col):
\* 'dragstart' sets draggingBlockIndex and the dataTransfer text, every
\* registered 'drop' listener runs, and 'dragend', fired at the dragged
\* option, resets draggingBlockIndex to -1.
Drop(index, row, col) ==
  \E run \in {dropListeners(World, dropHandlers, 0, index, row, col)} :
    /\ run.ok
    /\ state' = run.world.state
    /\ rnd' = run.world.rnd
    /\ highScore' = run.world.highScore
    /\ dropHandlers' = dropHandlers + run.placed
    /\ last' = IF run.placed > 0
                 THEN [NoCall("drop") EXCEPT
                         !.ret = "true",
                         !.blockIndex = index,
                         !.row = row,
                         !.col = col,
                         !.placed = run.placed]
                 ELSE [NoCall("drop") EXCEPT !.ret = "false"]
    /\ UNCHANGED picked

NextUI ==
  \/ \E index \in 0..2 : ClickBlock(index)
  \/ \E a \in UICells : ClickCell(a[1], a[2])
  \/ \E index \in 0..2, a \in UICells : Drop(index, a[1], a[2])
  \/ DoRestart

SpecUI == Init /\ [][NextUI]_vars

---------------------------------------------------------------------------
(* A game that reaches the first difficulty level                          *)

\* A random source whose first result is always 0 (the large-only pool is
\* used whenever largeChance > 0) and whose second result gives the 1x4 bar
\* from the whole catalog and the J from the large-only pool.
LongStream == Cycle(<< Draw(0, 6, 1) >>, 16)

\* The left and the right half of each of the rows 0..MaxLongRow.
MaxLongRow == 4
LongMoves == {<<r, c>> : r \in 0..MaxLongRow, c \in {0, 4}}

\* The player works from the top: the first block goes to the left half of
\* a row when the left halves above it are occupied, and to the right half
\* of a row, completing it, when the left halves above it are empty.
LongMove(row, col) ==
  /\ \A q \in 0..row - 1 : (Cell(state.grid, q, 0) # 0) <=> (col = 0)
  /\ col = 4 => Cell(state.grid, row, 0) # 0
  /\ GridMove(0, row, col)

NextLongGame ==
  \/ \E m \in LongMoves : LongMove(m[1], m[2])
  \/ DoRestart

SpecLongGame == InitFrom(LongStream) /\ [][NextLongGame]_vars

---------------------------------------------------------------------------
(* randomShape called on its own                                           *)

\* The scores randomShape is called at: both sides of the first two level
\* boundaries, and both sides of the score at which largeChance reaches 1.
ScoreInputs == {0, 249, 250, 499, 500, 3249, 3250, 3251}

\* The first result of Math.random() in a call, in steps of one hundredth.
PercentPoints == {k * (RandDen \div 100) : k \in 0..99}

\* A game with an empty grid and a score of ScoreInputs.
InitAtScore ==
  \E score \in ScoreInputs :
    LET three == getThreeBlocks(0, Cycle(<< Draw(0, 3, 1) >>, 3))
    IN  /\ state = [grid |-> initGrid,
                    currentBlocks |-> three.blocks,
                    score |-> score,
                    combo |-> 0,
                    streak |-> 0,
                    lastMoveCleared |-> FALSE,
                    gameOver |-> FALSE,
                    selectedBlockIndex |-> -1,
                    draggingBlockIndex |-> -1]
        /\ rnd = three.rnd
        /\ highScore = 0
        /\ last = NoCall("init")
        /\ dropHandlers = render(0)
        /\ picked = NoBlock

\* One call of randomShape with the random results d; the record of the
\* call keeps d and the block returned.
RandomShapeCall(d) ==
  /\ last.op # "randomShape"
  /\ last' = [NoCall("randomShape") EXCEPT
                !.block = randomShape(state.score, d),
                !.draw = d]
  /\ UNCHANGED <<state, rnd, highScore, dropHandlers, picked>>

NextRandomShape ==
  \E u \in PercentPoints, idx \in 0..Len(SHAPES) - 1, k \in {1, 5} :
    RandomShapeCall(Draw(u, idx, k))

SpecRandomShape == InitAtScore /\ [][NextRandomShape]_vars

---------------------------------------------------------------------------
(* Properties                                                              *)

Accepted(l) == l.op = "tryPlaceBlock" /\ l.ret = "true"

\* The cells (dr, dc) of a shape that are occupied.
Occupied(shape) ==
  {p \in (0..Height(shape) - 1) \X (0..Width(shape) - 1) :
     shape[p[1] + 1][p[2] + 1] = 1}

\* The shape lies inside the grid at (row, col) and on empty cells only.
Fits(grid, shape, row, col) ==
  /\ row + Height(shape) <= 8
  /\ col + Width(shape) <= 8
  /\ \A p \in Occupied(shape) : grid[row + p[1]][col + p[2]] = 0

\* C1: gameOver is true exactly when none of the three current blocks can
\* be placed at any anchor (row, col) of the grid.
GameOverIffNoBlockFits ==
  state.gameOver <=>
    ~ \E i \in 1..3, row \in 0..7, col \in 0..7 :
        canPlace(state.grid, state.currentBlocks[i].shape, row, col) = "true"

\* An accepted move has just ended the game.
GameEndedByMove == Accepted(last) /\ state.gameOver

\* C2: for every catalog shape and every anchor with row >= 0 and col >= 0,
\* canPlace returns true exactly when the shape's box ends inside the grid
\* and every occupied cell of the shape falls on an empty grid cell.
CanPlaceIffFits ==
  last.op = "canPlace" =>
    /\ last.ret \in {"true", "false"}
    /\ last.ret = "true"
         <=> Fits(state.grid, last.block.shape, last.row, last.col)

\* canPlace has refused a shape with an empty cell in its box, for overlap
\* alone, at an anchor where the cell under the empty cell is occupied.
CanPlaceRefusedOverlap ==
  /\ last.op = "canPlace" /\ last.ret = "false"
  /\ last.row + Height(last.block.shape) <= 8
  /\ last.col + Width(last.block.shape) <= 8
  /\ \E dr \in 0..Height(last.block.shape) - 1,
        dc \in 0..Width(last.block.shape) - 1 :
       /\ last.block.shape[dr + 1][dc + 1] = 0
       /\ state.grid[last.row + dr][last.col + dc] # 0

\* The shape placed at (row, col) would lie outside the 8x8 grid.
OutsideGrid(shape, row, col) ==
  \/ row < 0
  \/ col < 0
  \/ row + Height(shape) > 8
  \/ col + Width(shape) > 8

\* C3: a placement attempt whose shape would lie outside the grid in any
\* direction returns false, throws nothing and changes nothing.
OutsideGridRejected ==
  [][\A i \in 0..2, a \in AnchorInputs :
       (/\ OutsideGrid(state.currentBlocks[i + 1].shape, a[1], a[2])
        /\ TryPlaceBlock(i, a[1], a[2]))
         => /\ last'.ret = "false"
            /\ state' = state]_vars

\* C4: tryPlaceBlock is accepted exactly when gameOver is false, blockIndex
\* is 0, 1 or 2 and canPlace holds for that block at (row, col); every other
\* call returns false and leaves the session as it was.
AcceptedIffAllowed ==
  [][\A i \in BlockInputs, a \in AnchorInputs :
       TryPlaceBlock(i, a[1], a[2])
         => /\ last'.ret = "true"
                 <=> /\ ~state.gameOver
                     /\ i \in 0..2
                     /\ canPlace(state.grid, state.currentBlocks[i + 1].shape,
                                 a[1], a[2]) = "true"
            /\ last'.ret # "true"
                 => last'.ret = "false" /\ state' = state]_vars

\* C5: once gameOver is true, no placement attempt changes gameOver, the
\* grid, the score, combo, streak or the current blocks; only doRestart
\* does.
GameOverFrozen ==
  [][(state.gameOver /\ last'.op # "doRestart")
       => /\ state'.gameOver
          /\ state'.grid = state.grid
          /\ state'.score = state.score
          /\ state'.combo = state.combo
          /\ state'.streak = state.streak
          /\ state'.currentBlocks = state.currentBlocks]_vars

\* A placement was attempted after the game had ended.
AttemptAfterGameOver ==
  state.gameOver /\ last.op = "tryPlaceBlock" /\ last.ret = "false"

\* The rows and the columns of grid g with all 8 cells occupied.
FullRows(g) == {r \in 0..7 : \A c \in 0..7 : g[r][c] # 0}
FullCols(g) == {c \in 0..7 : \A r \in 0..7 : g[r][c] # 0}

\* C6: the rows and columns cleared by an accepted move are exactly those
\* that were full right after the block was stamped; afterwards every cell
\* of a cleared line is empty and every other cell is as it was stamped.
ClearedExactlyFullLines ==
  Accepted(last) =>
    /\ SeqToSet(last.linesCleared.rows) = FullRows(last.stamped)
    /\ SeqToSet(last.linesCleared.cols) = FullCols(last.stamped)
    /\ Len(last.linesCleared.rows) = Cardinality(FullRows(last.stamped))
    /\ Len(last.linesCleared.cols) = Cardinality(FullCols(last.stamped))
    /\ \A r \in 0..7, c \in 0..7 :
         state.grid[r][c] =
           IF r \in FullRows(last.stamped) \/ c \in FullCols(last.stamped)
             THEN 0
             ELSE last.stamped[r][c]

\* A move has cleared a row and a column at once, and left other cells
\* occupied.
RowAndColumnCleared ==
  /\ Accepted(last)
  /\ last.linesCleared.rows # <<>>
  /\ last.linesCleared.cols # <<>>
  /\ \E r \in 0..7, c \in 0..7 : state.grid[r][c] # 0

\* The lines an accepted move l cleared.
LinesOf(l) ==
  Cardinality(FullRows(l.stamped)) + Cardinality(FullCols(l.stamped))

\* C7: an accepted move that clears count >= 1 lines with streak s on entry
\* adds 5 + count*10 + 2^count + (s > 0 ? s*20 : 0) to the score; one that
\* clears nothing adds 5.
ScoreDelta ==
  [][Accepted(last')
       => state'.score - state.score =
            IF LinesOf(last') >= 1
              THEN 5 + LinesOf(last') * 10 + 2 ^ LinesOf(last')
                     + (IF state.streak > 0 THEN state.streak * 20 ELSE 0)
              ELSE 5]_vars

\* A move has cleared a line right after a move that cleared one.
ClearedOnStreak ==
  Accepted(last) /\ LinesOf(last) >= 1 /\ state.streak >= 2

\* C8: after an accepted move combo is the number of lines it cleared, and
\* streak is one more than before if it cleared a line and 0 if not;
\* a refused attempt changes neither.
ComboAndStreak ==
  [][/\ Accepted(last')
          => /\ state'.combo = LinesOf(last')
             /\ state'.streak =
                  IF LinesOf(last') >= 1 THEN state.streak + 1 ELSE 0
     /\ (last'.op = "tryPlaceBlock" /\ last'.ret # "true")
          => state'.combo = state.combo /\ state'.streak = state.streak]_vars

\* A move has cleared nothing in a game in which a line was cleared before
\* (the points of a clear are no multiple of 5).
StreakBroken ==
  /\ Accepted(last)
  /\ LinesOf(last) = 0
  /\ state.streak = 0
  /\ state.score % 5 # 0

\* C9: there are always exactly 3 current blocks; an accepted placement of
\* the block at index i keeps the other two in order at indices 0 and 1 and
\* puts one newly generated block at index 2.
ThreeBlocksRefilled ==
  /\ [](Len(state.currentBlocks) = 3)
  /\ [][Accepted(last')
          => LET old == state.currentBlocks
                 kept == CASE last'.blockIndex = 0 -> <<old[2], old[3]>>
                           [] last'.blockIndex = 1 -> <<old[1], old[3]>>
                           [] last'.blockIndex = 2 -> <<old[1], old[2]>>
             IN  /\ state'.currentBlocks =
                      kept \o <<randomShape(state'.score, Head(rnd))>>
                 /\ rnd' = Tail(rnd)]_vars

\* The middle block was placed, and it differs from the two that stay,
\* which differ from each other.
MiddleBlockPlaced ==
  /\ Accepted(last)
  /\ last.blockIndex = 1
  /\ state.currentBlocks[1] # state.currentBlocks[2]
  /\ last.block \notin {state.currentBlocks[1], state.currentBlocks[2]}

\* C10: when a placement is accepted, the grid before the clear step holds
\* the block's colour in every cell an occupied cell of the shape covers and
\* the value from before the move in every other cell.
StampedExactlyShape ==
  [][Accepted(last')
       => LET b == state.currentBlocks[last'.blockIndex + 1]
          IN  \A r \in 0..7, c \in 0..7 :
                last'.stamped[r][c] =
                  IF \E p \in Occupied(b.shape) :
                       r = last'.row + p[1] /\ c = last'.col + p[2]
                    THEN b.color
                    ELSE state.grid[r][c]]_vars

\* A shape with an empty cell in its box was placed with that cell over a
\* cell another block had occupied.
StampedAroundOccupied ==
  /\ Accepted(last)
  /\ \E dr \in 0..Height(last.block.shape) - 1,
        dc \in 0..Width(last.block.shape) - 1 :
       /\ last.block.shape[dr + 1][dc + 1] = 0
       /\ last.col + dc >= 0
       /\ last.stamped[last.row + dr][last.col + dc]
            \notin {0, last.block.color}

\* C11: doRestart, in whatever state it is invoked (a game that has ended
\* and a game just restarted included), leaves an empty 8x8 grid, score 0,
\* streak 0, combo 0, gameOver false and exactly 3 blocks, each the result
\* of one new randomShape call.
RestartYieldsFreshGame ==
  [][last'.op = "doRestart"
       => /\ \A r \in 0..7, c \in 0..7 : state'.grid[r][c] = 0
          /\ DOMAIN state'.grid = 0..7
          /\ state'.score = 0
          /\ state'.streak = 0
          /\ state'.combo = 0
          /\ ~state'.gameOver
          /\ Len(state'.currentBlocks) = 3
          /\ \A i \in 1..3 :
               \E sc \in {0, state.score} :
                 state'.currentBlocks[i] = randomShape(sc, rnd[i])
          /\ rnd' = Tail(Tail(Tail(rnd)))]_vars

\* A game that had ended with blocks on the grid has been restarted.
RestartedAfterGameOver ==
  last.op = "doRestart" /\ last.wasOver /\ highScore > 0

\* C12: after every accepted move, also one that does not end the game,
\* the stored high score is at least the current score.
HighScoreCoversScore ==
  Accepted(last) => highScore >= state.score

\* The number of occupied cells of the catalog shape at index idx.
CellCount(idx) == Cardinality(Occupied(ShapeAt(idx)))

\* C13: the catalog has 23 shapes, LARGE_SHAPE_INDICES has 13 entries, and
\* a catalog index is in LARGE_SHAPE_INDICES exactly when its shape has 4
\* or more occupied cells.
\* The second part is stated of the catalog index of every shape that
\* randomShape generates.
LargeIffFourCells ==
  /\ Len(SHAPES) = 23
  /\ Len(LARGE_SHAPE_INDICES) = 13
  /\ last.op = "randomShape"
       => \A idx \in 0..Len(SHAPES) - 1 :
            ShapeAt(idx) = last.block.shape
              => (idx \in SeqToSet(LARGE_SHAPE_INDICES)
                    <=> CellCount(idx) >= 4)

\* The catalog shapes of the large subset.
LargeShapes == {ShapeAt(idx) : idx \in SeqToSet(LARGE_SHAPE_INDICES)}

\* Of 100 equally spaced first results of Math.random(), the number for
\* which randomShape at this score with the results d uses the large pool.
LargePoolPercent(score, d) ==
  Cardinality({u \in PercentPoints : useLargePool(score, [d EXCEPT !.u = u])})

\* C14: randomShape uses the large-only pool with chance
\* floor(score/250) * 8 percent: never below score 250, 8 percent at 250,
\* and from score 3250 upward every generated shape is of the large subset.
LargePoolChance ==
  last.op = "randomShape" =>
    LET score == state.score
        percent == (score \div 250) * 8
        chance == LargePoolPercent(score, last.draw)
        fromAll == ShapeAt((last.draw.v * 23) \div RandDen)
    IN  /\ chance = IF percent > 100 THEN 100 ELSE percent
        /\ score < 250 => chance = 0 /\ last.block.shape = fromAll
        /\ score = 250 => chance = 8
        /\ score >= 3250 => last.block.shape \in LargeShapes
        /\ last.block.shape \in LargeShapes \cup {fromAll}
        /\ last.block.shape # fromAll
             => last.draw.u * 100 < percent * RandDen

\* At score 250 a call has drawn from the large-only pool a shape that the
\* whole catalog would not have given for the same random results.
LargePoolUsedAtFirstLevel ==
  /\ last.op = "randomShape"
  /\ state.score = 250
  /\ last.block.shape \in LargeShapes
  /\ last.block.shape # ShapeAt((last.draw.v * 23) \div RandDen)

\* C15: the three blocks of a restart are generated at the difficulty of
\* score 0, whatever the score of the game that was being played.
RestartDrawsAtScoreZero ==
  [][last'.op = "doRestart"
       => state'.currentBlocks = getThreeBlocks(0, rnd).blocks]_vars

\* C16: whenever a block is selected (selectedBlockIndex >= 0), the block
\* at that index of currentBlocks is the block the player clicked, also
\* after drag-and-drop placements in between.
SelectionIsClickedBlock ==
  state.selectedBlockIndex >= 0
    => state.currentBlocks[state.selectedBlockIndex + 1] = picked

\* C17: one drop event on the board makes at most one accepted placement:
\* at most one block is consumed and replaced.
OneDropOnePlacement ==
  [][last'.op = "drop"
       => /\ last'.placed <= 1
          /\ Len(rnd) - Len(rnd') <= 1]_vars

\* C18: between moves (after initialisation, after a restart and after
\* every completed tryPlaceBlock) no row and no column of the grid has all
\* 8 cells occupied.
NoFullLineBetweenMoves ==
  /\ FullRows(state.grid) = {}
  /\ FullCols(state.grid) = {}

\* A move has filled a line and the game went on with cells still occupied.
FullLineWasStamped ==
  /\ Accepted(last)
  /\ FullRows(last.stamped) \cup FullCols(last.stamped) # {}
  /\ ~state.gameOver
  /\ \E r \in 0..7 : Cardinality({c \in 0..7 : state.grid[r][c] # 0}) >= 4

\* The grid cells under the occupied cells of the block of the move l.
BlockCells(l) ==
  {<<l.row + p[1], l.col + p[2]>> : p \in Occupied(l.block.shape)}

\* C19: every row and column an accepted move clears passes through a cell
\* of the block it placed; so the move clears at most height + width <= 6
\* lines, and with streak s on entry gains at most 5 + 60 + 64 + 20*s.
ClearedLinesThroughBlock ==
  [][Accepted(last')
       => /\ \A r \in SeqToSet(last'.linesCleared.rows) :
               \E x \in BlockCells(last') : x[1] = r
          /\ \A c \in SeqToSet(last'.linesCleared.cols) :
               \E x \in BlockCells(last') : x[2] = c
          /\ last'.linesCleared.count
               <= Height(last'.block.shape) + Width(last'.block.shape)
          /\ last'.linesCleared.count <= 6
          /\ state'.score - state.score
               <= 5 + 60 + 64 + 20 * state.streak]_vars

\* A move has cleared two lines at once.
TwoLinesCleared ==
  Accepted(last) /\ last.linesCleared.count >= 2

====
